---- MODULE Spec2Model ----
(***************************************************************************)
(* Token lifecycle and renewal of the federation clients:                  *)
(*   "x509"      X509FederationClient                                      *)
(*   "recursive" TokenExchangeFederationClient, self-recursive retry       *)
(*   "static"    TokenExchangeFederationClient, while-loop retry           *)
(*   "dynamic"   TokenExchangeFederationClient, for-loop retry, callback   *)
(*   "wif"       WorkloadIdentityFederationClient, single-flight           *)
(* One client instance is shared by a few asynchronous callers.  A step of *)
(* the model is one synchronous run of JavaScript between two suspension   *)
(* points (transport send, subject-token callback, retry delay, supplier   *)
(* refresh).                                                               *)
(***************************************************************************)
EXTENDS Integers, Sequences, FiniteSets, TLC

\* ---------------------------------------------------------------- bounds
NumCallers == 2
MaxCycles == 2
MaxTime == 1
MaxLife == 2

Callers == 1..NumCallers
CycleIds == 1..MaxCycles
Kinds == {"x509", "recursive", "static", "dynamic", "wif"}

\* ------------------------------------------------------ program constants
DEFAULT_AUTH_MAX_RETRY_COUNT == 3
X509_DEFAULT_AUTH_MAX_RETRY_COUNT == 3
RecursiveRetryLimit == 3
DEFAULT_AUTH_MAX_DELAY_IN_SECONDS == 1
\* const delayMs of the loop-based clients
delayMs == DEFAULT_AUTH_MAX_DELAY_IN_SECONDS * 1000
ClockSkewBuffer == 1

\* ------------------------------------------------------------- responses
\* What the transport hands back for one send: an exception, or a status
\* and a body.
Exc == [threw |-> TRUE, status |-> 0, body |-> "none"]
Resp(s, b) == [threw |-> FALSE, status |-> s, body |-> b]
NoResp == [threw |-> FALSE, status |-> 0, body |-> "none"]

\* Bodies of a 200 response:
\*   "tok"    {"token": "<jwt>"}          "atok"   {"access_token": "<jwt>"}
\*   "nojson" text that is not JSON       "null"   the JSON text null
\*   "nonstr" {"token": 7, "access_token": 7}
\*   "empty"  {"token": "", "access_token": ""}
Bodies == {"tok", "atok", "nojson", "null", "nonstr", "empty"}
ErrorStatuses == {204, 401, 503}
Responses == {Exc} \cup {Resp(200, b) : b \in Bodies}
                   \cup {Resp(s, "err") : s \in ErrorStatuses}

\* JSON.parse / response.json() of a body
JSONparse(body) ==
  CASE body = "nojson" -> "SyntaxError"
    [] body = "null" -> "null"
    [] OTHER -> "object"

\* tokenField reading the other field name
tokenField_reads_access_token(body) ==
  CASE body = "atok" -> "string"
    [] body = "nonstr" -> "number"
    [] body = "empty" -> "emptystring"
    [] OTHER -> "undefined"

\* responseBody.token of a parsed object
tokenField(body) ==
  CASE body = "tok" -> "string"
    [] body = "nonstr" -> "number"
    [] body = "empty" -> "emptystring"
    [] OTHER -> "undefined"

\* responseBody.access_token of a parsed object
accessTokenField(body) ==
  CASE body = "atok" -> "string"
    [] body = "nonstr" -> "number"
    [] body = "empty" -> "emptystring"
    [] OTHER -> "undefined"

\* typeof v !== "string" || !v
NotNonEmptyString(v) == v # "string"

\* ---------------------------------------------------------------- tokens
\* raw > 0: a token string issued for send number raw; raw = 0: the empty
\* string; raw = -1: undefined; raw = -2: a value that is not a string.
\* key is the session key version whose public key was in the request.
Token(raw, exp, key) == [raw |-> raw, exp |-> exp, key |-> key]
Placeholder == Token(0, 0, 0)

RawOf(fieldValue, sid) ==
  CASE fieldValue = "string" -> sid
    [] fieldValue = "emptystring" -> 0
    [] fieldValue = "undefined" -> -1
    [] OTHER -> -2

isValid(tok, t) == tok.raw > 0 /\ t < tok.exp - ClockSkewBuffer

\* ------------------------------------------------------- retry decisions
\* Each operator gives what one attempt's outcome does to the cycle:
\* "return" (a token is built), "fail" (the cycle throws) or "retry".

\* MaxAttemptsTerminationStrategy(n).shouldTerminate(waitContext)
shouldTerminate(attemptCount) == attemptCount >= X509_DEFAULT_AUTH_MAX_RETRY_COUNT

\* X509Loop without the break on status 200
X509Loop_goes_on_after_200(attemptCount, r) ==
  IF r.threw
    THEN IF attemptCount < X509_DEFAULT_AUTH_MAX_RETRY_COUNT - 1 THEN "retry" ELSE "break"
    ELSE IF r.status >= 400 /\ r.status < 500 THEN "break"
    ELSE IF shouldTerminate(attemptCount) THEN "break"
    ELSE "retry"

\* X509FederationClient.getSecurityTokenFromServer, the while (true) loop
X509Loop(attemptCount, r) ==
  IF r.threw
    THEN IF attemptCount < X509_DEFAULT_AUTH_MAX_RETRY_COUNT - 1 THEN "retry" ELSE "break"
    ELSE IF r.status = 200 THEN "break"
    ELSE IF r.status >= 400 /\ r.status < 500 THEN "break"
    ELSE IF shouldTerminate(attemptCount) THEN "break"
    ELSE "retry"

\* X509AfterLoop testing only response !== undefined
X509AfterLoop_without_status_test(response) ==
  IF response # NoResp
    THEN IF JSONparse(response.body) = "object" THEN "return" ELSE "throwRaw"
    ELSE "fail"

\* X509FederationClient.getSecurityTokenFromServer, after the loop;
\* response is the variable kept across the iterations (NoResp: undefined)
X509AfterLoop(response) ==
  IF response # NoResp /\ response.status = 200
    THEN IF JSONparse(response.body) = "object" THEN "return" ELSE "throwRaw"
    ELSE "fail"

\* the response variable after an attempt that ended with r
X509Response(response, r) == IF r.threw THEN response ELSE r

X509Decide(attemptCount, response, r) ==
  IF X509Loop(attemptCount, r) = "retry"
    THEN "retry"
    ELSE X509AfterLoop(X509Response(response, r))

\* StaticDecide with the retry test written attemptNumber <= maxAttempts
StaticDecide_one_attempt_more(attemptNumber, r) ==
  LET again == IF attemptNumber <= DEFAULT_AUTH_MAX_RETRY_COUNT THEN "retry" ELSE "fail"
  IN IF r.threw THEN again
     ELSE IF r.status = 200
       THEN IF JSONparse(r.body) = "SyntaxError" THEN again
            ELSE IF tokenField(r.body) = "string" THEN "return" ELSE "fail"
     ELSE IF r.status >= 400 /\ r.status < 500 THEN "fail"
     ELSE again

\* TokenExchangeFederationClient (while loop), one iteration
StaticDecide(attemptNumber, r) ==
  LET again == IF attemptNumber < DEFAULT_AUTH_MAX_RETRY_COUNT THEN "retry" ELSE "fail"
  IN IF r.threw THEN again
     ELSE IF r.status = 200
       THEN IF JSONparse(r.body) = "SyntaxError" THEN again
            ELSE IF JSONparse(r.body) = "null" THEN "fail"
            ELSE IF tokenField(r.body) \in {"undefined", "number"} THEN "fail"
            ELSE IF tokenField(r.body) = "emptystring" THEN "fail"
            ELSE "return"
     ELSE IF r.status >= 400 /\ r.status < 500 THEN "fail"
     ELSE again

\* DynamicDecide without the client-error branch: a 4xx falls through to
\* the "unexpected status" throw and is retried
DynamicDecide_retries_4xx(attempt, r) ==
  LET again == IF attempt < DEFAULT_AUTH_MAX_RETRY_COUNT THEN "retry" ELSE "fail"
  IN IF r.threw THEN again
     ELSE IF r.status # 200 THEN again
     ELSE IF JSONparse(r.body) # "object" THEN again
     ELSE IF NotNonEmptyString(tokenField(r.body)) THEN "fail"
     ELSE "return"

\* TokenExchangeFederationClient (for loop), one iteration
DynamicDecide(attempt, r) ==
  LET again == IF attempt < DEFAULT_AUTH_MAX_RETRY_COUNT THEN "retry" ELSE "fail"
  IN IF r.threw THEN again
     ELSE IF r.status >= 400 /\ r.status < 500 THEN "fail"
     ELSE IF r.status >= 500 THEN again
     ELSE IF r.status # 200 THEN again
     ELSE IF JSONparse(r.body) = "SyntaxError" THEN again
     ELSE IF JSONparse(r.body) = "null" THEN again
     ELSE IF NotNonEmptyString(tokenField(r.body)) THEN "fail"
     ELSE "return"

\* RecursiveDecide with one retry more
RecursiveDecide_one_retry_more(retryField, r) ==
  IF r.threw THEN "fail"
  ELSE IF r.status # 200
    THEN IF retryField <= RecursiveRetryLimit THEN "retry" ELSE "fail"
  ELSE IF JSONparse(r.body) # "object" THEN "fail"
  ELSE IF accessTokenField(r.body) # "string" THEN "fail"
  ELSE "return"

\* TokenExchangeFederationClient (recursive), one call of
\* getSecurityTokenFromServer; retryField is this.retry
RecursiveDecide(retryField, r) ==
  IF r.threw THEN "fail"
  ELSE IF r.status # 200
    THEN IF retryField < RecursiveRetryLimit THEN "retry" ELSE "fail"
  ELSE IF JSONparse(r.body) # "object" THEN "fail"
  ELSE IF accessTokenField(r.body) # "string" THEN "fail"
  ELSE "return"

\* WifDecide that tries again after a transport exception or a 5xx
WifDecide_retries_5xx(r) ==
  IF r.threw THEN "retry"
  ELSE IF r.status >= 500 THEN "retry"
  ELSE IF r.status # 200 THEN "fail"
  ELSE IF JSONparse(r.body) # "object" THEN "fail"
  ELSE IF NotNonEmptyString(tokenField(r.body)) THEN "fail"
  ELSE "return"

\* WorkloadIdentityFederationClient.getSecurityTokenFromServer
WifDecide(r) ==
  IF r.threw THEN "fail"
  ELSE IF r.status # 200 THEN "fail"
  ELSE IF JSONparse(r.body) # "object" THEN "fail"
  ELSE IF NotNonEmptyString(tokenField(r.body)) THEN "fail"
  ELSE "return"

\* ------------------------------------------- requests to sign, builders
\* A header value is the sequence of the pieces of its string; <<>> is a
\* header that is not there.  Header names compare without case (Headers).
HeaderNames ==
  {"host", "x-date", "content-type", "content-length", "x-content-sha256",
   "authorization"}
NoHeaders == [h \in HeaderNames |-> <<>>]

\* request.body: truthy is what if (request.body) sees, content the string
\* getStringFromRequestBody reads from it
NoBody == [truthy |-> FALSE, content |-> ""]
NoRequest == [body |-> NoBody, headers |-> NoHeaders]
NoSigning == [given |-> NoRequest, material |-> "all", urlHost |-> TRUE,
              sign |-> "signed"]

\* a builder field that was never assigned
UNDEFINED == "<undefined>"
\* a subject token given as a function
FUNCTION == "<function>"
NewBuilder(cls) ==
  [cls |-> cls, domainHost |-> UNDEFINED, subjectToken |-> UNDEFINED,
   clientCred |-> UNDEFINED]
NoClient ==
  [cls |-> "none", tokenExchangeEndpoint |-> "", subjectToken |-> "",
   clientCred |-> ""]
\* threw: the message of the error build() threw ("none": it returned);
\* supplier, client: what the call constructed
\* of: the builder fields the call read
NotBuilt ==
  [threw |-> "none", called |-> FALSE, supplier |-> FALSE, client |-> NoClient,
   of |-> NewBuilder("none")]

\* ----------------------------------------------------------------- state
VARIABLES
  kind,                  \* which client class this instance is
  dynamic,               \* typeof this.subjectToken === "function"
  leafHasRefresh,        \* this._leafCertificateSupplier.refresh is defined
  purpose,               \* this.purpose
  keyMaterial,           \* the suppliers hand out their key material: the
                         \* session key pair and its public key, and (X509)
                         \* the leaf certificate, its key pair and private key
  leafTenancy,           \* tenancy id in the current leaf certificate ("mine"
                         \* is this._tenancyId); a supplier with refresh()
                         \* delivers its certificate before it is first read
  leafCert,              \* which certificate the leaf supplier of the client
                         \* hands out: 0 the one given at construction, n the
                         \* one that came with its n-th successful refresh
  now,                   \* the clock
  securityTokenAdapter,  \* this.securityTokenAdapter, the cached token
  keyVer,                \* version of the key pair in sessionKeySupplier
  retry,                 \* this.retry of the recursive client
  refreshPromise,        \* this._refreshPromise: 0 is null, else a cycle id
  outcome,               \* cycle id -> how that cycle's promise settled
  ncyc,                  \* cycles started so far
  nsend,                 \* transport sends made so far
  call,                  \* caller -> the call it has in progress
  ret,                   \* the call that returned last, until the next starts
  signEnv,               \* what a signHttpRequest call is given: the request
                         \* as passed in, the leaf supplier's material, whether
                         \* request.uri has a host, what httpSignature.sign does
  request,               \* the request being signed (its headers are mutated)
  signResult,            \* how the signHttpRequest call ended
  builder,               \* the fields of a provider builder
  built                  \* how the last build() call ended

vars == <<kind, dynamic, leafHasRefresh, purpose, keyMaterial, leafTenancy,
          leafCert, now,
          securityTokenAdapter, keyVer, retry, refreshPromise, outcome,
          ncyc, nsend, call, ret, signEnv, request, signResult, builder, built>>

\* the state of the request signer and of the provider builder
tools == <<signEnv, request, signResult, builder, built>>

config == <<kind, dynamic, leafHasRefresh, purpose, keyMaterial>>

\* lifetime of an issued token, in clock ticks
Lifes == {MaxLife}
CbFail == [threw |-> TRUE, status |-> -1, body |-> "subject"]
\* what an attempt ends with when getTokenAsync throws for missing key material
KeyFail == [threw |-> TRUE, status |-> -2, body |-> "keys"]

\* How a promise settles.  For a rejection: tagged is shouldBeRetried ===
\* false on the error, err the step that failed, cause the error held in
\* the error's cause field ("none": no such field).
Pending ==
  [state |-> "pending", tok |-> Placeholder, tagged |-> FALSE, err |-> "none",
   cause |-> "none"]
Ok(tok) ==
  [state |-> "ok", tok |-> tok, tagged |-> FALSE, err |-> "none", cause |-> "none"]
Fail(tagged, err) ==
  [state |-> "fail", tok |-> Placeholder, tagged |-> tagged, err |-> err,
   cause |-> "none"]

IdleCall ==
  [pc |-> "idle", op |-> "none", check |-> FALSE, cyc |-> 0, own |-> FALSE,
   attempt |-> 0, sends |-> 0, rots |-> 0, cbs |-> 0, delays |-> 0,
   steps |-> <<>>, subj |-> 0, cert |-> -1, fp |-> -1,
   sid |-> 0, key |-> 0,
   last |-> NoResp, response |-> NoResp, transientOnly |-> TRUE,
   validAtCall |-> FALSE, flightAtCall |-> 0,
   src |-> "none", res |-> Pending]

Init ==
  /\ kind \in Kinds
  /\ dynamic \in (IF kind \in {"dynamic", "wif"} THEN BOOLEAN ELSE {FALSE})
  /\ leafHasRefresh \in (IF kind = "x509" THEN BOOLEAN ELSE {FALSE})
  /\ purpose \in (IF kind = "x509" THEN {"DEFAULT", "OTHER"} ELSE {"DEFAULT"})
  /\ keyMaterial \in BOOLEAN
  /\ leafTenancy \in (IF kind = "x509" /\ ~leafHasRefresh
                        THEN {"mine", "other"} ELSE {"mine"})
  /\ leafCert = 0
  /\ now = 0
  /\ securityTokenAdapter = Placeholder
  /\ keyVer = 0
  /\ retry = 0
  /\ refreshPromise = 0
  /\ outcome = [i \in CycleIds |-> Pending]
  /\ ncyc = 0
  /\ nsend = 0
  /\ call = [c \in Callers |-> IdleCall]
  /\ ret = IdleCall
  /\ signEnv = NoSigning
  /\ request = NoRequest
  /\ signResult = "none"
  /\ builder = NewBuilder("wif")
  /\ built = NotBuilt

\* --------------------------------------------------------------- helpers
\* The mutable fields of the client, as one record, so that the code paths
\* below can be written as functions from state to state.
Cur ==
  [adapter |-> securityTokenAdapter, keyVer |-> keyVer, retry |-> retry,
   promise |-> refreshPromise, outcome |-> outcome, ncyc |-> ncyc,
   leafTenancy |-> leafTenancy, leafCert |-> leafCert]

\* A settled promise that neither _refreshPromise nor any caller holds any
\* more (and that the last returned call did not come from) is unreachable;
\* its outcome is forgotten.
Collected ==
  [state |-> "collected", tok |-> Placeholder, tagged |-> FALSE, err |-> "none",
   cause |-> "none"]

Collect(calls, last, s) ==
  [k \in CycleIds |->
     IF \/ k > s.ncyc
        \/ k = s.promise
        \/ last.cyc = k \/ last.flightAtCall = k
        \/ \E c \in Callers : calls[c].cyc = k \/ calls[c].flightAtCall = k
       THEN s.outcome[k] ELSE Collected]

\* the call records after caller c's record became rec: a call that has
\* returned (pc = "idle") frees the caller for its next call
CallsAfter(c, rec) ==
  [call EXCEPT ![c] = IF rec.pc = "idle" THEN IdleCall ELSE rec]

\* the last returned call after caller c's record became rec
RetAfter(c, rec) ==
  IF rec.pc = "idle" THEN rec
  ELSE IF call[c].pc = "idle" THEN IdleCall
  ELSE ret

\* Commit caller c's new call record and the client's new fields.
Apply(c, p) ==
  /\ call' = CallsAfter(c, p[1])
  /\ ret' = RetAfter(c, p[1])
  /\ securityTokenAdapter' = p[2].adapter
  /\ keyVer' = p[2].keyVer
  /\ retry' = p[2].retry
  /\ refreshPromise' = p[2].promise
  /\ outcome' = Collect(CallsAfter(c, p[1]), RetAfter(c, p[1]), p[2])
  /\ ncyc' = p[2].ncyc
  /\ leafTenancy' = p[2].leafTenancy
  /\ leafCert' = p[2].leafCert
  /\ nsend' = IF p[1].pc = "sent" THEN nsend + 1 ELSE nsend
  /\ UNCHANGED <<config, now, tools>>

UsesCallback == dynamic /\ kind \in {"dynamic", "wif"}

\* the cycle whose promise is in _refreshPromise and has not settled
InFlight ==
  IF refreshPromise # 0 /\ outcome[refreshPromise].state = "pending"
    THEN refreshPromise ELSE 0

\* transport exception, status >= 500, or another non-200 outside [400,500)
TransientClass(r) ==
  \/ r = Exc
  \/ ~r.threw /\ r.status # 200 /\ ~(r.status >= 400 /\ r.status < 500)

\* does the terminal error of getSecurityTokenFromServer carry
\* shouldBeRetried = false
TagsTerminalError == kind # "recursive"

FirstAttempt == IF kind \in {"static", "dynamic"} THEN 1 ELSE 0

ErrOf(r) ==
  IF r.status = -1 THEN "subject"
  ELSE IF r.status = -2 THEN "keys"
  ELSE IF r.threw THEN "transport" ELSE IF r.status # 200 THEN "status" ELSE "body"

\* The error thrown at the end of getSecurityTokenFromServer when the last
\* attempt ended with r: the for-loop client and the single-flight client
\* store the caught error in cause, the others copy its message only.
TerminalError(r) ==
  [Fail(TagsTerminalError, ErrOf(r)) EXCEPT
     !.cause = IF kind \in {"dynamic", "wif"} THEN ErrOf(r) ELSE "none"]

\* Finish that drops the cached token when the cycle failed
Finish_drops_cache_on_failure(rec, s, res) ==
  <<[rec EXCEPT !.pc = "idle", !.src = "cycle", !.res = res],
    [s EXCEPT !.outcome[rec.cyc] = res,
              !.adapter = IF res.state = "ok" THEN res.tok ELSE Placeholder,
              !.promise = IF kind = "wif" THEN 0 ELSE @]>>

\* The end of a refresh cycle: the promise settles, the cache is replaced
\* on success, and the single-flight client clears its marker (finally).
Finish(rec, s, res) ==
  <<[rec EXCEPT !.pc = "idle", !.src = "cycle", !.res = res],
    [s EXCEPT !.outcome[rec.cyc] = res,
              !.adapter = IF res.state = "ok" THEN res.tok ELSE @,
              !.promise = IF kind = "wif" THEN 0 ELSE @]>>

\* The key material tests at the start of an attempt find something
\* missing and throw.  X509FederationClient and the for-loop client make
\* them in getTokenAsync, inside the try of the retry loop; the single-flight
\* client inside the try of getSecurityTokenFromServer; the while-loop and
\* the recursive client at the top of getSecurityTokenFromServer.
MissingKeyMaterial(rec, s) ==
  LET bad == [rec EXCEPT !.last = KeyFail, !.transientOnly = FALSE]
  IN CASE kind = "x509" ->
            IF X509Loop(rec.attempt, KeyFail) = "retry"
              THEN <<[bad EXCEPT !.pc = "delay"], s>>
              ELSE Finish(bad, s, TerminalError(KeyFail))
       [] kind = "dynamic" ->
            IF rec.attempt < DEFAULT_AUTH_MAX_RETRY_COUNT
              THEN <<[bad EXCEPT !.pc = "delay"], s>>
              ELSE Finish(bad, s, TerminalError(KeyFail))
       [] kind = "wif" -> Finish(bad, s, TerminalError(KeyFail))
       [] OTHER -> Finish(bad, s, Fail(FALSE, "keys"))

\* getTokenAsync up to its first suspension: the session key pair is read,
\* then the subject-token callback is awaited or the request is sent.
\* The leaf certificate a request of the X509 client is about (-1: the
\* client signs nothing).  embedded: the one getTokenAsync puts into the
\* body; signedWith: the one signHttpRequest takes the fingerprint and the
\* private key of, read from federationClient.leafCertificateSupplier when
\* the request is signed.
embedded(s) == IF kind = "x509" THEN s.leafCert ELSE -1

\* signedWith reading the supplier the client was constructed with
signedWith_supplier_at_construction(s) == IF kind = "x509" THEN 0 ELSE -1

signedWith(s) == IF kind = "x509" THEN s.leafCert ELSE -1

\* this.federationClient.tenancyId
tenancyId == "mine"
\* leafCertificate.fingerprint("sha1").toString("hex")
fingerprint(cert) == <<"sha1", cert>>
\* the keyId of the signature: `${tenancyId}/fed-x509/${fingerprint}`
apiKey(rec) == <<tenancyId, "fed-x509", fingerprint(rec.fp)>>

\* getTokenAsync that keeps the subject token it resolved once
getTokenAsync_keeps_subject_token(rec, s) ==
  IF ~keyMaterial THEN MissingKeyMaterial(rec, s)
  ELSE IF UsesCallback /\ rec.subj = 0
    THEN <<[rec EXCEPT !.pc = "cb", !.key = s.keyVer, !.cbs = @ + 1], s>>
    ELSE <<[rec EXCEPT !.pc = "sent", !.key = s.keyVer, !.sends = @ + 1,
                       !.sid = nsend + 1, !.cert = embedded(s),
                       !.fp = signedWith(s)], s>>

getTokenAsync(rec, s) ==
  IF ~keyMaterial THEN MissingKeyMaterial(rec, s)
  ELSE IF UsesCallback
    THEN <<[rec EXCEPT !.pc = "cb", !.key = s.keyVer, !.cbs = @ + 1], s>>
    ELSE <<[rec EXCEPT !.pc = "sent", !.key = s.keyVer, !.sends = @ + 1,
                       !.sid = nsend + 1, !.cert = embedded(s),
                       !.fp = signedWith(s)], s>>

\* sessionKeySupplier.refreshKeys() threw inside the async arrow function of
\* the single-flight client: finally clears the marker first, and the
\* assignment then stores the rejected promise.
FinishRotationFailure(rec, s) ==
  LET res == Fail(FALSE, "rotate")
  IN <<[rec EXCEPT !.pc = "idle", !.src = "cycle", !.res = res],
       [s EXCEPT !.outcome[rec.cyc] = res,
                 !.promise = IF kind = "wif" THEN rec.cyc ELSE @]>>

\* The body of refreshAndGetSecurityTokenInner once it has decided to
\* refresh, up to the first suspension.  rotOk: refreshKeys() returned.
StartCycle(rec, rotOk) ==
  LET id == ncyc + 1
      rec1 == [rec EXCEPT !.cyc = id, !.own = TRUE, !.rots = 1,
                          !.attempt = FirstAttempt, !.steps = <<"rotate">>]
      s0 == [Cur EXCEPT !.ncyc = id]
      s1 == [s0 EXCEPT !.keyVer = @ + 1,
                       !.promise = IF kind = "wif" THEN id ELSE @]
  IN IF ~rotOk THEN FinishRotationFailure(rec1, s0)
     ELSE IF kind = "x509" /\ leafHasRefresh THEN <<[rec1 EXCEPT !.pc = "leaf"], s1>>
     ELSE IF kind = "x509" THEN <<[rec1 EXCEPT !.pc = "inter"], s1>>
     ELSE getTokenAsync(rec1, s1)

NewCall(o, chk) ==
  [IdleCall EXCEPT !.op = o, !.check = chk,
                   !.validAtCall = isValid(securityTokenAdapter, now),
                   !.flightAtCall = InFlight]

ServeFromCache(rec) ==
  <<[rec EXCEPT !.src = "cache", !.res = Ok(securityTokenAdapter)], Cur>>

\* Join that answers from the cache instead of handing out the promise
Join_serves_cache(rec) == ServeFromCache(rec)

\* the promise found in _refreshPromise is returned to the caller
Join(rec) == <<[rec EXCEPT !.pc = "join", !.cyc = refreshPromise], Cur>>

\* refreshAndGetSecurityTokenInner without the _refreshPromise test
refreshAndGetSecurityTokenInner_no_single_flight(c, rec, rotOk) ==
  IF rec.check /\ isValid(securityTokenAdapter, now) THEN Apply(c, ServeFromCache(rec))
  ELSE ncyc < MaxCycles /\ Apply(c, StartCycle(rec, rotOk))

\* refreshAndGetSecurityTokenInner(doFinalTokenValidityCheck)
refreshAndGetSecurityTokenInner(c, rec, rotOk) ==
  IF kind = "wif" /\ refreshPromise # 0 THEN Apply(c, Join(rec))
  ELSE IF rec.check /\ isValid(securityTokenAdapter, now) THEN Apply(c, ServeFromCache(rec))
  ELSE ncyc < MaxCycles /\ Apply(c, StartCycle(rec, rotOk))

\* ---------------------------------------------------------------- actions
\* getSecurityToken without the fast path: it always goes on to refresh
getSecurityToken_skips_cache(c) ==
  /\ call[c].pc = "idle"
  /\ \E rotOk \in BOOLEAN :
       refreshAndGetSecurityTokenInner(c, NewCall("get", FALSE), rotOk)

getSecurityToken(c) ==
  /\ call[c].pc = "idle"
  /\ \E rotOk \in BOOLEAN :
       LET rec == NewCall("get", TRUE)
       IN IF isValid(securityTokenAdapter, now)
            THEN Apply(c, ServeFromCache(rec))
            ELSE refreshAndGetSecurityTokenInner(c, rec, rotOk)

\* getStringClaim that refreshes whether or not the cached token is valid
getStringClaim_always_refreshes(c) ==
  /\ call[c].pc = "idle"
  /\ \E rotOk \in BOOLEAN :
       refreshAndGetSecurityTokenInner(c, NewCall("claim", FALSE), rotOk)

getStringClaim(c) ==
  /\ call[c].pc = "idle"
  /\ \E rotOk \in BOOLEAN :
       LET rec == NewCall("claim", TRUE)
       IN IF kind = "wif" /\ isValid(securityTokenAdapter, now)
            THEN Apply(c, ServeFromCache(rec))
            ELSE refreshAndGetSecurityTokenInner(c, rec, rotOk)

refreshAndGetSecurityToken(c) ==
  /\ call[c].pc = "idle"
  /\ \E rotOk \in BOOLEAN :
       refreshAndGetSecurityTokenInner(c, NewCall("refresh", FALSE), rotOk)

\* SubjectTokenResolved that asks the callback once more when it failed
SubjectTokenResolved_invokes_again(c) ==
  /\ call[c].pc = "cb"
  /\ \E v \in {"value", "empty", "throw"} :
       LET rec == call[c]
           bad == [rec EXCEPT !.last = CbFail, !.transientOnly = FALSE]
       IN IF v = "value"
            THEN Apply(c, <<[rec EXCEPT !.pc = "sent", !.sends = @ + 1,
                                        !.sid = nsend + 1], Cur>>)
          ELSE IF rec.cbs < 2
            THEN Apply(c, <<[bad EXCEPT !.cbs = @ + 1], Cur>>)
          ELSE Apply(c, Finish(bad, Cur, TerminalError(CbFail)))

\* The subject-token callback settles: v is what it produced.
SubjectTokenResolved(c) ==
  /\ call[c].pc = "cb"
  /\ \E v \in {"value", "empty", "throw"} :
       LET rec == call[c]
           bad == [rec EXCEPT !.last = CbFail, !.transientOnly = FALSE]
       IN IF v = "value"
            THEN Apply(c, <<[rec EXCEPT !.pc = "sent", !.sends = @ + 1,
                                        !.sid = nsend + 1, !.subj = rec.cbs], Cur>>)
          ELSE IF kind = "dynamic" /\ rec.attempt < DEFAULT_AUTH_MAX_RETRY_COUNT
            THEN Apply(c, <<[bad EXCEPT !.pc = "delay"], Cur>>)
          ELSE Apply(c, Finish(bad, Cur, TerminalError(CbFail)))

Decide(rec, r) ==
  CASE kind = "x509" -> X509Decide(rec.attempt, rec.response, r)
    [] kind = "static" -> StaticDecide(rec.attempt, r)
    [] kind = "dynamic" -> DynamicDecide(rec.attempt, r)
    [] kind = "recursive" -> RecursiveDecide(retry, r)
    [] OTHER -> WifDecide(r)

\* the value handed to new SecurityTokenAdapter(...)
AdapterValue(rec, r) ==
  IF kind = "recursive" THEN accessTokenField(r.body) ELSE tokenField(r.body)

NewAdapter(rec, r, life) ==
  LET raw == RawOf(AdapterValue(rec, r), rec.sid)
  IN Token(raw, IF raw > 0 THEN now + life ELSE 0, rec.key)

\* The transport answers caller c's outstanding request with r; the code
\* runs on to the next suspension or to the end of the cycle.
Response(c) ==
  /\ call[c].pc = "sent"
  /\ \E r \in Responses, life \in Lifes :
       LET rec == [call[c] EXCEPT !.last = r,
                                  !.response = IF kind = "x509" THEN X509Response(@, r) ELSE @,
                                  !.transientOnly = @ /\ TransientClass(r)]
           s == [Cur EXCEPT !.retry = IF kind = "recursive" /\ ~r.threw /\ r.status = 200
                                        THEN 0 ELSE @]
           d == Decide(call[c], r)
       IN CASE d = "return" -> Apply(c, Finish(rec, s, Ok(NewAdapter(rec, r, life))))
            [] d = "throwRaw" -> Apply(c, Finish(rec, s, Fail(FALSE, "body")))
            [] d = "fail" -> Apply(c, Finish(rec, s, TerminalError(r)))
            [] OTHER ->
                 IF kind = "recursive"
                   THEN Apply(c, getTokenAsync(rec, [s EXCEPT !.retry = @ + 1]))
                   ELSE Apply(c, <<[rec EXCEPT !.pc = "delay"], s>>)

\* await delay(...) is over: the counter moves on and the next attempt starts
\* DelayElapsed with refreshKeys() called again before the next attempt
DelayElapsed_rotates(c) ==
  /\ call[c].pc = "delay"
  /\ Apply(c, getTokenAsync([call[c] EXCEPT !.attempt = @ + 1,
                                            !.delays = @ + 1, !.rots = @ + 1],
                            [Cur EXCEPT !.keyVer = @ + 1]))

DelayElapsed(c) ==
  /\ call[c].pc = "delay"
  /\ Apply(c, getTokenAsync([call[c] EXCEPT !.attempt = @ + 1,
                                            !.delays = @ + 1], Cur))

\* this._leafCertificateSupplier.refresh() settles
LeafRefreshed(c) ==
  /\ call[c].pc = "leaf"
  /\ \E out \in {"mine", "other", "throw"} :
       LET rec == [call[c] EXCEPT
                     !.steps = @ \o (IF out # "throw" /\ purpose = "DEFAULT"
                                       THEN <<"leaf", "tenancy">> ELSE <<"leaf">>)]
           s == [Cur EXCEPT !.leafTenancy = IF out = "throw" THEN @ ELSE out,
                            !.leafCert = IF out = "throw" THEN @ ELSE @ + 1]
       IN IF out = "throw" THEN Apply(c, Finish(rec, s, Fail(FALSE, "leaf")))
          ELSE IF purpose = "DEFAULT" /\ out # "mine"
            THEN Apply(c, Finish(rec, s, Fail(FALSE, "tenancy")))
          ELSE Apply(c, <<[rec EXCEPT !.pc = "inter"], s>>)

\* the intermediate certificate supplier's refresh() settles
IntermediateRefreshed(c) ==
  /\ call[c].pc = "inter"
  /\ \E ok \in BOOLEAN :
       LET rec == [call[c] EXCEPT !.steps = @ \o <<"intermediates">>]
       IN IF ok THEN Apply(c, getTokenAsync(rec, Cur))
                ELSE Apply(c, Finish(rec, Cur, Fail(FALSE, "intermediate")))

\* a caller that was handed the promise in _refreshPromise resumes
JoinReturn(c) ==
  /\ call[c].pc = "join"
  /\ outcome[call[c].cyc].state # "pending"
  /\ Apply(c, <<[call[c] EXCEPT !.pc = "idle", !.src = "cycle",
                                !.res = outcome[call[c].cyc]], Cur>>)

Tick ==
  /\ now < MaxTime
  /\ now' = now + 1
  /\ UNCHANGED <<config, leafTenancy, leafCert, securityTokenAdapter, keyVer, retry,
                 refreshPromise, outcome, ncyc, nsend, call, ret, tools>>

\* Every client class, used by one caller that issues its calls one after
\* another.
Next ==
  \/ getSecurityToken(1)
  \/ getStringClaim(1)
  \/ refreshAndGetSecurityToken(1)
  \/ SubjectTokenResolved(1)
  \/ Response(1)
  \/ DelayElapsed(1)
  \/ LeafRefreshed(1)
  \/ IntermediateRefreshed(1)
  \/ JoinReturn(1)
  \/ Tick

Spec == Init /\ [][Next]_vars

\* Every client class and one caller again, calling getSecurityToken and
\* refreshAndGetSecurityToken with the clock standing still, where every
\* awaited operation settles in the end: a transport send returns or
\* throws, a supplier refresh and the subject-token callback settle, a retry
\* delay elapses, a settled promise resumes its awaiters.
NextLive ==
  \/ getSecurityToken(1)
  \/ refreshAndGetSecurityToken(1)
  \/ SubjectTokenResolved(1)
  \/ Response(1)
  \/ DelayElapsed(1)
  \/ LeafRefreshed(1)
  \/ IntermediateRefreshed(1)
  \/ JoinReturn(1)

\* the continuation of the call in progress; its position (pc) enables at
\* most one of these at a time
Settle ==
  \/ Response(1)
  \/ SubjectTokenResolved(1)
  \/ DelayElapsed(1)
  \/ LeafRefreshed(1)
  \/ IntermediateRefreshed(1)
  \/ JoinReturn(1)

Fairness == WF_vars(Settle)

SpecLive == Init /\ [][NextLive]_vars /\ Fairness

\* The single-flight client shared by all callers, whose calls overlap
\* freely.
InitSingleFlight == Init /\ kind = "wif"

NextSingleFlight ==
  \/ \E c \in Callers : getSecurityToken(c)
  \/ \E c \in Callers : getStringClaim(c)
  \/ \E c \in Callers : refreshAndGetSecurityToken(c)
  \/ \E c \in Callers : SubjectTokenResolved(c)
  \/ \E c \in Callers : Response(c)
  \/ \E c \in Callers : JoinReturn(c)
  \/ Tick

SpecSingleFlight == InitSingleFlight /\ [][NextSingleFlight]_vars

\* X509FederationClient and the while-loop TokenExchangeFederationClient,
\* whose getSecurityToken is documented as thread-safe, shared by all
\* callers, whose getSecurityToken calls overlap freely.
InitOverlap == Init /\ kind \in {"x509", "static"}

NextOverlap ==
  \/ \E c \in Callers : getSecurityToken(c)
  \/ \E c \in Callers : Response(c)
  \/ \E c \in Callers : DelayElapsed(c)
  \/ \E c \in Callers : LeafRefreshed(c)
  \/ \E c \in Callers : IntermediateRefreshed(c)
  \/ Tick

SpecOverlap == InitOverlap /\ [][NextOverlap]_vars

TypeOK ==
  /\ kind \in Kinds
  /\ now \in 0..MaxTime
  /\ ncyc \in 0..MaxCycles
  /\ refreshPromise \in 0..MaxCycles
  /\ \A c \in Callers : call[c].pc \in {"idle", "leaf", "inter", "cb", "sent", "delay", "join"}

\* -------------------------------------------------------------- requests
\* requested_token_type in the request payload of getTokenAsync
requested_token_type ==
  IF kind = "wif" THEN "urn:oci-token-type:oci-upst" ELSE "urn:oci:token-type:oci-upst"

\* The requestObj that getTokenAsync of a bearer-credential client hands to
\* httpClient.send for the call rec: the body is the payload as
\* URLSearchParams(...).toString() ("form") or, in the recursive client, as
\* JSON.stringify(...) ("json"); public_key is the session key version read
\* when the request was built, subject_token the resolved subject token.
requestObj(rec) ==
  [method |-> "POST",
   encoding |-> IF kind = "recursive" THEN "json" ELSE "form",
   grant_type |-> "urn:ietf:params:oauth:grant-type:token-exchange",
   requested_token_type |-> requested_token_type,
   subject_token_type |-> "jwt",
   subject_token |-> rec.subj,
   public_key |-> rec.key,
   ContentType |-> "application/x-www-form-urlencoded",
   Authorization |-> "Basic clientCred"]

\* ------------------------------------------------------------- providers
\* The catch block of the authentication providers' refresh() and
\* getClaim(): a new Error whose message contains the caught error's
\* message; no other field of the caught error is copied.
ProviderError(error) == Fail(FALSE, error.err)

\* TokenExchangeIdentityAuthenticationDetailsProvider.refresh() (and the
\* same method of the other two providers), given how the federation
\* client's refreshAndGetSecurityToken() settled
refresh(settled) ==
  IF settled.state = "fail" THEN ProviderError(settled) ELSE settled

\* WorkloadIdentityFederationAuthenticationDetailsProvider.getClaim(key),
\* given how the federation client's getStringClaim(key) settled
getClaim(settled) ==
  IF settled.state = "fail" THEN ProviderError(settled) ELSE settled

\* ------------------------------------------------------------ properties
\* the calls in progress and the call that returned last
Recs == {call[c] : c \in Callers} \cup {ret}

Returned(r) == r.pc = "idle" /\ r.src # "none"
CycleOver(r) == r.own /\ r.pc = "idle" /\ r.src = "cycle"
Outstanding == {c \in Callers : call[c].pc = "sent"}
ClientError(r) == ~r.threw /\ r.status >= 400 /\ r.status < 500

\* C1 as stated: at most one exchange request is outstanding at any time,
\* and the callers that arrive while the cache is invalid and no refresh is
\* in flight cause exactly 1 transport send and exactly 1 key rotation.
C1_ExactlyOneSend ==
  /\ Cardinality(Outstanding) <= 1
  /\ (CycleOver(ret) /\ ~ret.validAtCall /\ ret.flightAtCall = 0)
       => ret.sends = 1 /\ ret.rots = 1

\* C1 amended: at most one exchange request is outstanding at any time; a
\* caller that arrives with an invalid cache while a cycle is in flight
\* shares that cycle and neither sends nor rotates; a cycle makes at most 1
\* send and 1 rotation, and exactly 1 send once refreshKeys has returned,
\* the session key pair is present and the subject token has resolved to a
\* non-empty value.
C1_SingleFlight ==
  /\ Cardinality(Outstanding) <= 1
  /\ Cardinality({k \in CycleIds : k <= ncyc /\ outcome[k].state = "pending"}) <= 1
  /\ nsend <= ncyc
  /\ keyVer <= ncyc
  /\ \A r \in Recs :
       /\ (r.op # "none" /\ ~r.validAtCall /\ r.flightAtCall # 0)
            => r.cyc = r.flightAtCall /\ ~r.own
       /\ ~r.own => r.sends = 0 /\ r.rots = 0
       /\ r.own => r.sends <= 1 /\ r.rots = 1
       /\ (CycleOver(r) /\ r.res.err \notin {"rotate", "keys", "subject"}) => r.sends = 1
  /\ \A c1, c2 \in Callers :
       (c1 # c2 /\ call[c1].own /\ call[c2].own) => call[c1].cyc # call[c2].cyc
  /\ \A c \in Callers : (call[c].own /\ ret.own) => call[c].cyc # ret.cyc

\* every caller has returned; the one that returned last found the cache
\* invalid and a cycle in flight, shared it and has that cycle's token; one
\* send and one rotation were made in all
C1_Witness ==
  /\ \A c \in Callers : call[c].pc = "idle"
  /\ Returned(ret) /\ ~ret.own /\ ~ret.validAtCall
  /\ ret.flightAtCall # 0 /\ ret.cyc = ret.flightAtCall
  /\ ret.res.state = "ok" /\ ret.res = outcome[ret.cyc]
  /\ securityTokenAdapter = ret.res.tok
  /\ ncyc = 1 /\ nsend = 1 /\ keyVer = 1

\* C2 as stated: every getSecurityToken or refreshAndGetSecurityToken call
\* made while a refresh cycle is in flight starts no cycle and returns that
\* cycle's outcome, also when the cached token is still valid.
C2_AlwaysJoins ==
  \A r \in Recs :
    (r.op \in {"get", "refresh"} /\ r.flightAtCall # 0)
      => /\ ~r.own
         /\ r.src # "cache"
         /\ Returned(r) => r.cyc = r.flightAtCall /\ r.res = outcome[r.flightAtCall]

\* C2 amended: a refreshAndGetSecurityToken call, or a getSecurityToken call
\* that finds the cached token invalid, made while a refresh cycle is in
\* flight starts no cycle and returns that cycle's outcome; a getSecurityToken
\* call that finds the cached token valid returns the cached token instead.
C2_JoinsUnlessCached ==
  \A r \in Recs :
    (r.op \in {"get", "refresh"} /\ r.flightAtCall # 0)
      => IF r.op = "get" /\ r.validAtCall
           THEN Returned(r) /\ r.src = "cache" /\ r.cyc = 0
                /\ r.res.state = "ok" /\ r.res.tok.raw > 0
           ELSE /\ ~r.own
                /\ r.cyc = r.flightAtCall
                /\ r.src # "cache"
                /\ Returned(r) => r.res = outcome[r.flightAtCall]
                                  /\ r.res.state # "pending"

\* a call that arrived during a cycle has returned with that cycle's token
C2_Witness ==
  /\ ret.op \in {"get", "refresh"} /\ ret.flightAtCall # 0
  /\ Returned(ret) /\ ret.src = "cycle" /\ ret.cyc = ret.flightAtCall
  /\ ret.res.state = "ok" /\ ret.res.tok.raw > 0

\* C3: once a refresh cycle has completed, _refreshPromise is null, whichever
\* step of the cycle failed.
C3_MarkerCleared ==
  refreshPromise # 0 => outcome[refreshPromise].state = "pending"

\* C4: getSecurityToken returns the cached token, with no send and no key
\* rotation, exactly when now < expiresAt - clockSkewBuffer at the call;
\* otherwise what it returns is the outcome of a refresh cycle.
C4_CachedIffValid ==
  /\ [][\A c \in Callers :
         (call[c].pc = "idle"
            /\ (call'[c].pc # "idle" \/ (call' = call /\ ret' # ret)))
           => LET new == IF call'[c].pc # "idle" THEN call'[c] ELSE ret'
              IN new.op = "get"
                   => IF securityTokenAdapter.raw > 0
                         /\ now < securityTokenAdapter.exp - ClockSkewBuffer
                        THEN /\ new.src = "cache"
                             /\ new.res = Ok(securityTokenAdapter)
                             /\ new.pc = "idle"
                             /\ UNCHANGED <<nsend, keyVer, securityTokenAdapter, ncyc>>
                        ELSE new.src # "cache" /\ new.cyc # 0]_vars
  /\ [](\A r \in Recs :
         (r.op = "get" /\ Returned(r) /\ r.src = "cycle")
           => ~r.validAtCall /\ r.res = outcome[r.cyc])

\* a getSecurityToken call answered from the cache
C4_Witness ==
  /\ ret.op = "get" /\ ret.src = "cache" /\ ret.validAtCall
  /\ ret.res.tok = securityTokenAdapter /\ ret.sends = 0 /\ ret.rots = 0

RetryingKinds == {"x509", "static", "dynamic"}
LoopKinds == {"static", "dynamic"}

\* C6: in the retrying clients a response with status in [400,500) ends the
\* cycle with a failure and no further send; a first response of 401 means
\* exactly 1 send.
C6_ClientErrorNotRetried ==
  \A r \in Recs :
    (kind \in RetryingKinds /\ ClientError(r.last))
      => /\ CycleOver(r)
         /\ r.res.state = "fail"
         /\ (r.attempt = FirstAttempt => r.sends = 1)

\* a cycle that ended on its first response, a 401
C6_Witness ==
  /\ kind \in RetryingKinds
  /\ ret.last = Resp(401, "err") /\ ret.sends = 1
  /\ CycleOver(ret) /\ ret.res.state = "fail"

\* C7: in the loop-based token-exchange clients a cycle whose attempts all
\* end with a transport exception, a status >= 500 or another non-200 status
\* outside [400,500) makes exactly 3 sends and then fails; no cycle makes
\* more than 3 sends.
C7_ThreeSendsThenFail ==
  \A r \in Recs :
    kind \in LoopKinds
      => /\ r.sends <= 3
         /\ (CycleOver(r) /\ r.transientOnly /\ r.res.err # "rotate")
              => /\ r.sends = 3
                 /\ r.res.state = "fail"
                 /\ r.res.tagged
         /\ (r.own /\ r.pc # "idle" /\ r.transientOnly) => r.sends <= r.attempt

\* three 503 answers in a row ended the cycle
C7_Witness ==
  /\ kind \in LoopKinds
  /\ CycleOver(ret) /\ ret.transientOnly
  /\ ret.sends = 3 /\ ret.last = Resp(503, "err")
  /\ ret.res.state = "fail"

\* C8: one refresh cycle of X509FederationClient sends at most 3 exchange
\* requests (DEFAULT_AUTH_MAX_RETRY_COUNT).
C8_X509AtMostThreeSends ==
  \A r \in Recs :
    kind = "x509" => r.sends <= X509_DEFAULT_AUTH_MAX_RETRY_COUNT

\* C9: in the token-exchange clients a 200 response whose body does not
\* parse as JSON ends the cycle with a failure; no send follows it.
C9_UnparsableBodyTerminal ==
  \A r \in Recs :
    (kind # "x509" /\ r.last = Resp(200, "nojson"))
      => CycleOver(r) /\ r.res.state = "fail"

TokenLess == {"atok", "null", "nonstr", "empty"}

\* C10: in the loop-based token-exchange clients and the single-flight
\* client a 200 response whose body parses but has no non-empty string
\* token (missing, not a string, empty, or JSON null) fails the cycle after
\* that single response, with no further send and the cache unchanged.
C10_TokenlessBodyTerminal ==
  [][\A c \in Callers :
       LET new == IF call'[c].pc = "idle" THEN ret' ELSE call'[c]
       IN (kind \in {"static", "dynamic", "wif"}
             /\ call[c].pc = "sent" /\ call'[c] # call[c]
             /\ new.last.status = 200 /\ new.last.body \in TokenLess)
            => /\ CycleOver(new)
               /\ new.res.state = "fail"
               /\ nsend' = nsend
               /\ securityTokenAdapter' = securityTokenAdapter]_vars

\* C11: in X509FederationClient a 200 response whose JSON body has no
\* non-empty string token makes the refresh cycle fail: the cached token is
\* not replaced and nothing is returned to the caller as a token.
C11_X509TokenlessBodyFails ==
  [][\A c \in Callers :
       LET new == IF call'[c].pc = "idle" THEN ret' ELSE call'[c]
       IN (kind = "x509"
             /\ call[c].pc = "sent" /\ call'[c] # call[c]
             /\ new.last.status = 200 /\ new.last.body \in TokenLess)
            => /\ CycleOver(new)
               /\ new.res.state = "fail"
               /\ securityTokenAdapter' = securityTokenAdapter]_vars

\* the steps of a refresh cycle that the tagging of errors is stated for:
\* the exchange (status, transport, body), the subject token and the
\* certificate suppliers
TaggedSteps == {"status", "transport", "body", "subject", "leaf", "tenancy",
                "intermediate"}

\* C12: every error that escapes getSecurityToken, getStringClaim or
\* refreshAndGetSecurityToken because a refresh cycle failed carries
\* shouldBeRetried = false, whichever step failed (4xx, retries exhausted,
\* malformed 200 body, certificate-supplier refresh, tenancy mismatch).
\* Stated for X509FederationClient, the loop-based token-exchange clients and
\* the single-flight client.
C12_FailureNotRetriable ==
  \A r \in Recs :
    (kind # "recursive" /\ Returned(r) /\ r.res.state = "fail"
       /\ r.res.err \in TaggedSteps)
      => r.res.tagged

\* C13: when a refresh cycle fails, the error that the caller of the
\* authentication provider's refresh() (and getClaim()) receives still
\* carries shouldBeRetried = false and has the federation client's error as
\* its cause.
C13_ProviderKeepsTagAndCause ==
  \A r \in Recs :
    (Returned(r) /\ r.src = "cycle" /\ r.res.state = "fail" /\ r.res.tagged)
      => /\ (r.op = "refresh" /\ kind # "x509")
              => refresh(r.res).tagged /\ refresh(r.res).cause = r.res.err
         /\ (r.op = "claim" /\ kind = "wif")
              => getClaim(r.res).tagged /\ getClaim(r.res).cause = r.res.err

\* the retries of a cycle are exhausted: every attempt ended with a
\* transient failure and the cycle has failed
Exhausted(r) ==
  /\ CycleOver(r) /\ r.res.state = "fail"
  /\ r.transientOnly /\ r.sends >= DEFAULT_AUTH_MAX_RETRY_COUNT

\* C14: in the retrying clients the terminal error raised when the retry
\* attempts are exhausted carries the error of the last attempt as its
\* cause.
C14_TerminalErrorHasCause ==
  \A r \in Recs :
    (kind \in RetryingKinds /\ Exhausted(r)) => r.res.cause = ErrOf(r.last)

\* C15 as stated: in the single-flight client the subject-token callback is
\* invoked exactly once per refresh cycle, however many callers triggered or
\* joined it, and never when the cached token is served.
C15_CallbackExactlyOnce ==
  \A r \in Recs :
    UsesCallback
      => /\ CycleOver(r) => r.cbs = 1
         /\ ~r.own => r.cbs = 0

\* C15 amended: the callback is invoked at most once per refresh cycle, and
\* exactly once in every cycle whose refreshKeys() returned and found the
\* session key pair present; a caller that arrives while a cycle is in
\* flight, joins a cycle or is served the cached token never invokes it.
C15_CallbackAtMostOnce ==
  \A r \in Recs :
    UsesCallback
      => /\ r.cbs <= 1
         /\ ~r.own => r.cbs = 0
         /\ r.src = "cache" => r.cbs = 0
         /\ (r.op # "none" /\ r.flightAtCall # 0) => r.cbs = 0
         /\ (r.own /\ r.pc # "idle") => r.cbs = 1
         /\ CycleOver(r) => r.cbs = (IF r.res.err \in {"rotate", "keys"} THEN 0 ELSE 1)

\* a cycle that another caller joined has ended with its token after one
\* invocation of the callback; the joiner has not resumed yet
C15_Witness ==
  /\ UsesCallback
  /\ CycleOver(ret) /\ ret.res.state = "ok" /\ ret.cbs = 1
  /\ \E c \in Callers :
       call[c].pc = "join" /\ call[c].cyc = ret.cyc /\ call[c].cbs = 0

\* C16: in both clients that accept a dynamic subject token a callback that
\* throws or resolves to an empty value ends the refresh cycle with an error
\* tagged shouldBeRetried = false; no request is sent for that attempt and
\* the callback is not invoked again in that cycle.
C16_CallbackFailureAborts ==
  [][\A c \in Callers :
       LET new == IF call'[c].pc = "idle" THEN ret' ELSE call'[c]
       IN (UsesCallback /\ call[c].pc = "cb" /\ call'[c] # call[c]
             /\ new.last = CbFail)
            => /\ CycleOver(new)
               /\ new.res.state = "fail" /\ new.res.tagged
               /\ new.cbs = 1
               /\ nsend' = nsend]_vars

\* no call is in progress on the client
Quiescent == \A c \in Callers : call[c].pc = "idle"

\* C17: whenever the cached token was obtained from an exchange, the key
\* pair now held by the session key supplier is the one whose public key
\* was sent in the request that produced that token, also after refresh
\* cycles that failed after the key rotation.  Stated for the states in
\* which no call is in progress.
C17_TokenKeyPairing ==
  (kind \in {"dynamic", "wif"} /\ Quiescent /\ securityTokenAdapter.raw > 0)
    => securityTokenAdapter.key = keyVer

\* C18: getSecurityToken of X509FederationClient and of the while-loop
\* TokenExchangeFederationClient is thread-safe: when two calls overlap
\* while the cache is invalid and both exchanges succeed at once, the token
\* left in the cache when the second call returns was issued for the key
\* pair the session key supplier holds at that point, and each call has
\* returned a token issued for a public key this client sent.  (ret is a
\* call that returned after the call of c had started.)
C18_OverlapKeepsPairing ==
  [][\A c \in Callers :
       (/\ call[c].op = "get" /\ call[c].pc = "sent" /\ call'[c].pc = "idle"
        /\ ret.op = "get" /\ CycleOver(ret)
        /\ ret.res.state = "ok" /\ ret.res.tok.raw > 0
        /\ ret'.res.state = "ok" /\ ret'.res.tok.raw > 0
        /\ \A d \in Callers : call'[d].pc = "idle"
        /\ ncyc = 2 /\ nsend = 2)
         => /\ securityTokenAdapter'.key = keyVer'
            /\ ret.res.tok.key \in 1..keyVer
            /\ ret'.res.tok.key \in 1..keyVer]_vars

\* C19: a failed refresh cycle leaves the cached token exactly as it was:
\* the cache is written only in the step that ends a cycle with success, so
\* a token that was valid before a failed forced refresh, and still is, is
\* what the next getSecurityToken returns.
C19_FailureKeepsCache ==
  /\ [][securityTokenAdapter' # securityTokenAdapter
         => /\ ret' # ret /\ CycleOver(ret')
            /\ ret'.res.state = "ok"
            /\ securityTokenAdapter' = ret'.res.tok]_vars
  /\ [][(ret' # ret /\ ret'.src = "cycle" /\ ret'.res.state = "fail")
         => securityTokenAdapter' = securityTokenAdapter]_vars
  /\ [][\A c \in Callers :
         (/\ CycleOver(ret) /\ ret.op = "refresh" /\ ret.validAtCall
          /\ ret.res.state = "fail"
          /\ isValid(securityTokenAdapter, now)
          /\ call[c].pc = "idle"
          /\ (call'[c].pc # "idle" \/ (call' = call /\ ret' # ret)))
           => LET new == IF call'[c].pc # "idle" THEN call'[c] ELSE ret'
              IN new.op = "get"
                   => /\ new.src = "cache"
                      /\ new.res = Ok(securityTokenAdapter)
                      /\ securityTokenAdapter' = securityTokenAdapter]_vars

\* a getSecurityToken call has been answered from the cache with a token
\* that is older than the last key rotation: the forced refresh that made
\* that rotation failed and left the token in place
C19_Witness ==
  /\ ret.op = "get" /\ ret.src = "cache" /\ ret.validAtCall
  /\ ret.res.tok = securityTokenAdapter /\ securityTokenAdapter.raw > 0
  /\ ncyc = 2 /\ keyVer = 2 /\ securityTokenAdapter.key = 1

\* C20: refreshAndGetSecurityToken never answers from the cache: also when
\* the cached token is valid the call runs a refresh cycle of its own, with
\* a key rotation and, when it returns a token, an exchange request; in the
\* single-flight client it may instead share the cycle that is in flight.
\* What it returns is the outcome of that cycle.
C20_RefreshNeverFromCache ==
  \A r \in Recs :
    r.op = "refresh"
      => /\ r.src # "cache"
         /\ r.own \/ (kind = "wif" /\ r.flightAtCall # 0 /\ r.cyc = r.flightAtCall)
         /\ r.own => r.rots = 1
         /\ (r.own /\ Returned(r) /\ r.res.state = "ok") => r.sends >= 1
         /\ Returned(r) => r.res = outcome[r.cyc]

\* C21: in X509FederationClient with purpose "DEFAULT", whenever the tenancy
\* id of the current leaf certificate differs from the configured tenancy
\* id, a refresh cycle fails before any transport send (a send is what gets
\* the request signed with that tenancy id), whether or not the leaf
\* certificate supplier has a refresh method.
C21_TenancyMismatchNoSend ==
  \A r \in Recs :
    (kind = "x509" /\ purpose = "DEFAULT" /\ leafTenancy # "mine" /\ r.own)
      => /\ r.sends = 0
         /\ r.pc = "idle" => r.res.state = "fail"

\* C22: missing key material is fatal and never retried: when the session
\* key pair or its public key, or (X509) the leaf certificate, its key pair
\* or its private key is absent, the refresh cycle fails at the first
\* detection, with no send, no retry delay and no second attempt.
C22_MissingKeyMaterialFatal ==
  \A r \in Recs :
    (~keyMaterial /\ r.own /\ r.last = KeyFail)
      => /\ CycleOver(r)
         /\ r.res.state = "fail"
         /\ r.sends = 0
         /\ r.attempt = FirstAttempt

\* C23: WorkloadIdentityFederationClient has no retry policy: a refresh
\* cycle makes at most one send, and any error (transport exception, any
\* non-200 status, unparsable or token-less 200 body) fails it at once.
C23_WifNoRetry ==
  \A r \in Recs :
    kind = "wif"
      => /\ r.sends <= 1
         /\ r.attempt = 0
         /\ r.pc # "delay"
         /\ (r.own /\ r.last \in Responses \ {Resp(200, "tok")})
              => CycleOver(r) /\ r.res.state = "fail" /\ r.sends = 1

\* a cycle of the single-flight client has failed on a 503, after one send
C23_Witness ==
  /\ kind = "wif"
  /\ CycleOver(ret) /\ ret.last = Resp(503, "err")
  /\ ret.sends = 1 /\ ret.res.state = "fail"

\* C24: the retry state of a refresh cycle is scoped to that cycle: no
\* attempt counter survives a cycle, so the number of attempts a cycle may
\* make does not depend on how earlier cycles ended; in the recursive
\* client a cycle that is answered with non-200 statuses only makes
\* 1 + RecursiveRetryLimit sends, whatever happened before.
C24_RetryStateScopedToCycle ==
  /\ Quiescent => retry = 0
  /\ \A r \in Recs :
       (kind = "recursive" /\ CycleOver(r) /\ r.res.err = "status")
         => r.sends = RecursiveRetryLimit + 1

\* C25: every token-exchange request built by a bearer-credential client is
\* a POST whose form body carries grant_type
\* urn:ietf:params:oauth:grant-type:token-exchange, requested_token_type
\* urn:oci:token-type:oci-upst, subject_token_type jwt, the resolved subject
\* token and the current session public key, with Content-Type
\* application/x-www-form-urlencoded and Authorization Basic <clientCred>;
\* the single-flight client sends the same constants as the loop-based
\* token-exchange clients.
C25_RequestConstants ==
  \A r \in Recs :
    (kind \in {"static", "dynamic", "wif"} /\ r.pc = "sent")
      => /\ requestObj(r).method = "POST"
         /\ requestObj(r).encoding = "form"
         /\ requestObj(r).grant_type = "urn:ietf:params:oauth:grant-type:token-exchange"
         /\ requestObj(r).requested_token_type = "urn:oci:token-type:oci-upst"
         /\ requestObj(r).subject_token_type = "jwt"
         /\ requestObj(r).subject_token = r.subj
         /\ requestObj(r).public_key = keyVer
         /\ requestObj(r).ContentType = "application/x-www-form-urlencoded"
         /\ requestObj(r).Authorization = "Basic clientCred"

\* C26: getStringClaim(key) refreshes only if the cached token is invalid:
\* no cycle when it is valid, at most one cycle otherwise; the claim is then
\* read from the client's cached token; when the refresh fails the call
\* ends with that error and returns no claim value.
C26_ClaimRefreshesIfInvalid ==
  \A r \in Recs :
    r.op = "claim"
      => /\ r.validAtCall
              => /\ Returned(r) /\ r.src = "cache" /\ r.cyc = 0
                 /\ r.sends = 0 /\ r.rots = 0
                 /\ r.res.state = "ok"
         /\ ~r.validAtCall => r.src # "cache" /\ r.cyc # 0 /\ r.rots <= 1
         /\ (Returned(r) /\ r.res.state = "ok")
              => r.res.tok = securityTokenAdapter
         /\ (Returned(r) /\ r.src = "cycle")
              => /\ r.res = outcome[r.cyc]
                 /\ r.res.state = "fail" => r.res.tok = Placeholder

\* a getStringClaim call has read its claim from the valid cached token of
\* the only cycle made so far
C26_Witness ==
  /\ ret.op = "claim" /\ ret.src = "cache" /\ ret.validAtCall
  /\ ret.res.tok = securityTokenAdapter /\ securityTokenAdapter.raw > 0
  /\ ncyc = 1 /\ nsend = 1

\* the most sends one refresh cycle of the client can make
MaxSends ==
  CASE kind = "wif" -> 1
    [] kind \in LoopKinds -> DEFAULT_AUTH_MAX_RETRY_COUNT
    [] kind = "x509" -> X509_DEFAULT_AUTH_MAX_RETRY_COUNT + 1
    [] OTHER -> RecursiveRetryLimit + 1

C28_PlaceholderNeverServed ==
  /\ \A r \in Recs : Returned(r) => ncyc > 0
  /\ \A r \in Recs :
       (Returned(r) /\ r.op = "get" /\ r.own /\ r.cyc = 1 /\ r.res.state = "ok")
         => r.sends >= 1
  /\ \A r \in Recs :
       (Returned(r) /\ r.res.state = "ok") => r.res.tok.raw # 0

\* ------------------------------------------------ AuthTokenRequestSigner
EMPTY_SHA == "47DEQpj8HBSa+/TImW+5JCeuQeRkm5NMpJWZG3hSuFU="

\* shaObj.update(content); shaObj.getHash("B64").  The SHA-256 digest of the
\* empty string is, in base 64, the string of EMPTY_SHA.
SHA256B64(content) == IF content = "" THEN EMPTY_SHA ELSE "sha256:" \o content

\* request.headers.has(name), request.headers.set(name, value)
has(headers, name) == headers[name] # <<>>
set(headers, name, value) == [headers EXCEPT ![name] = value]

\* String.prototype.replace(from, to) with a string pattern: the first
\* occurrence only
RECURSIVE replace(_, _, _)
replace(v, from, to) ==
  IF v = <<>> THEN <<>>
  ELSE IF Head(v) = from THEN <<to>> \o Tail(v)
  ELSE <<Head(v)>> \o replace(Tail(v), from, to)

\* what httpSignature.sign puts into the authorization header
SignatureHeader == <<"Signature ", "keyId=\"tenancy/fed-x509/fingerprint\",signature=">>
SignatureVersion == "Signature version=\"1\","

\* The body of signHttpRequest: the headers it leaves and how it ends
\* ("returned", or the error thrown).
Signed(req, env) ==
  LET h0 == req.headers
      out(h, r) == [headers |-> h, result |-> r]
  IN IF env.material = "nopair"
       THEN out(h0, "Certificate and key pair are not present")
     ELSE IF env.material = "nocert"
       THEN out(h0, "TypeError")
     ELSE IF ~has(h0, "host") /\ ~env.urlHost
       THEN out(h0, "Cannot parse host from url")
     ELSE
       LET h1 == IF has(h0, "host") THEN h0 ELSE set(h0, "host", <<"url.host">>)
           h2 == IF has(h1, "x-date") THEN h1 ELSE set(h1, "x-date", <<"now">>)
           h3 == IF has(h2, "content-type") THEN h2
                 ELSE set(h2, "content-type", <<"application/json">>)
           contentLen == IF req.body.truthy THEN Len(req.body.content) ELSE 0
           h4 == IF req.body.truthy
                   THEN set(h3, "x-content-sha256", <<SHA256B64(req.body.content)>>)
                   ELSE h3
           h5 == IF contentLen = 0 THEN set(h4, "x-content-sha256", <<EMPTY_SHA>>)
                 ELSE h4
           h6 == IF has(h5, "content-length") THEN h5
                 ELSE set(h5, "content-length", <<ToString(contentLen)>>)
           h7 == IF env.sign = "signed" THEN set(h6, "authorization", SignatureHeader)
                 ELSE h6
       IN IF env.material = "nokey" THEN out(h6, "TypeError")
          ELSE IF env.sign = "throws" THEN out(h6, "sign threw")
          ELSE IF has(h7, "authorization")
            THEN out(set(h7, "authorization",
                         replace(h7["authorization"], "Signature ", SignatureVersion)),
                     "returned")
          ELSE out(h7, "Unable to sign request")

signHttpRequest ==
  /\ signResult = "none"
  /\ request' = [request EXCEPT !.headers = Signed(request, signEnv).headers]
  /\ signResult' = Signed(request, signEnv).result
  /\ UNCHANGED <<config, leafTenancy, leafCert, now, securityTokenAdapter, keyVer, retry,
                 refreshPromise, outcome, ncyc, nsend, call, ret,
                 signEnv, builder, built>>

\* The requests a caller may hand in: each header there or not, a body that
\* is absent, empty or not, and the three things the signing needs.
GivenValues(name) ==
  IF name = "authorization"
    THEN {<<>>, <<"Bearer ", "t">>, <<"Signature ", "keyId=earlier">>}
    ELSE {<<>>, <<"given by the caller">>}
GivenHeaders ==
  {h \in [HeaderNames -> UNION {GivenValues(n) : n \in HeaderNames}] :
     \A n \in HeaderNames : h[n] \in GivenValues(n)}
RequestBodies == {NoBody} \cup [truthy : {TRUE}, content : {"", "a", "bc"}]
Requests == [body : RequestBodies, headers : GivenHeaders]
Materials == {"all", "nopair", "nocert", "nokey"}
SignOutcomes == {"signed", "throws", "nothing"}

InitSigner ==
  /\ kind = "x509"
  /\ dynamic = FALSE
  /\ leafHasRefresh = FALSE
  /\ purpose = "DEFAULT"
  /\ keyMaterial = TRUE
  /\ leafTenancy = "mine"
  /\ leafCert = 0
  /\ now = 0
  /\ securityTokenAdapter = Placeholder
  /\ keyVer = 0
  /\ retry = 0
  /\ refreshPromise = 0
  /\ outcome = [i \in CycleIds |-> Pending]
  /\ ncyc = 0
  /\ nsend = 0
  /\ call = [c \in Callers |-> IdleCall]
  /\ ret = IdleCall
  /\ signEnv \in [given : Requests, material : Materials, urlHost : BOOLEAN,
                  sign : SignOutcomes]
  /\ request = signEnv.given
  /\ signResult = "none"
  /\ builder = NewBuilder("wif")
  /\ built = NotBuilt

NextSigner == signHttpRequest

SpecSigner == InitSigner /\ [][NextSigner]_vars

\* the string the digest of a request's body is taken of
BodyContent(req) == IF req.body.truthy THEN req.body.content ELSE ""

BuilderClasses == {"wif", "subject"}
DomainHosts == {"", "idcs-1.example.com", "idcs-2.example.com"}
SubjectTokens == {"", "jwt", FUNCTION}
ClientCreds == {"", "Y2xpZW50OnNlY3JldA=="}

\* !v of a string, a function or undefined
Falsy(v) == v \in {UNDEFINED, ""}

withDomainHost(domainHost) ==
  /\ builder' = [builder EXCEPT !.domainHost = domainHost]
  /\ UNCHANGED <<config, leafTenancy, leafCert, now, securityTokenAdapter, keyVer, retry,
                 refreshPromise, outcome, ncyc, nsend, call, ret,
                 signEnv, request, signResult, built>>

withSubjectToken(subjectToken) ==
  /\ builder' = [builder EXCEPT !.subjectToken = subjectToken]
  /\ UNCHANGED <<config, leafTenancy, leafCert, now, securityTokenAdapter, keyVer, retry,
                 refreshPromise, outcome, ncyc, nsend, call, ret,
                 signEnv, request, signResult, built>>

withClientCredentials(clientCred) ==
  /\ builder' = [builder EXCEPT !.clientCred = clientCred]
  /\ UNCHANGED <<config, leafTenancy, leafCert, now, securityTokenAdapter, keyVer, retry,
                 refreshPromise, outcome, ncyc, nsend, call, ret,
                 signEnv, request, signResult, built>>

\* the class build() makes its federation client of
ClientClass(cls) ==
  IF cls = "wif" THEN "WorkloadIdentityFederationClient"
  ELSE "SubjectTokenExchangeFederationClient"

threw(message, b) ==
  [threw |-> message, called |-> TRUE, supplier |-> FALSE, client |-> NoClient,
   of |-> b]

\* build() that does not test clientCred
build_without_clientCred_test ==
  /\ built' =
       IF Falsy(builder.domainHost) THEN threw("domainHost is missing", builder)
       ELSE IF Falsy(builder.subjectToken) THEN threw("subjectToken is missing", builder)
       ELSE [threw |-> "none", called |-> TRUE, supplier |-> TRUE,
             client |->
               [cls |-> ClientClass(builder.cls),
                tokenExchangeEndpoint |->
                  "https://" \o builder.domainHost \o "/oauth2/v1/token",
                subjectToken |-> builder.subjectToken,
                clientCred |-> builder.clientCred],
             of |-> builder]
  /\ UNCHANGED <<config, leafTenancy, leafCert, now, securityTokenAdapter, keyVer, retry,
                 refreshPromise, outcome, ncyc, nsend, call, ret,
                 signEnv, request, signResult, builder>>

build ==
  /\ built' =
       IF Falsy(builder.domainHost) THEN threw("domainHost is missing", builder)
       ELSE IF Falsy(builder.subjectToken) THEN threw("subjectToken is missing", builder)
       ELSE IF Falsy(builder.clientCred) THEN threw("clientCred is missing", builder)
       ELSE [threw |-> "none", called |-> TRUE, supplier |-> TRUE,
             client |->
               [cls |-> ClientClass(builder.cls),
                tokenExchangeEndpoint |->
                  "https://" \o builder.domainHost \o "/oauth2/v1/token",
                subjectToken |-> builder.subjectToken,
                clientCred |-> builder.clientCred],
             of |-> builder]
  /\ UNCHANGED <<config, leafTenancy, leafCert, now, securityTokenAdapter, keyVer, retry,
                 refreshPromise, outcome, ncyc, nsend, call, ret,
                 signEnv, request, signResult, builder>>

InitBuilder ==
  /\ kind = "wif"
  /\ dynamic = FALSE
  /\ leafHasRefresh = FALSE
  /\ purpose = "DEFAULT"
  /\ keyMaterial = TRUE
  /\ leafTenancy = "mine"
  /\ leafCert = 0
  /\ now = 0
  /\ securityTokenAdapter = Placeholder
  /\ keyVer = 0
  /\ retry = 0
  /\ refreshPromise = 0
  /\ outcome = [i \in CycleIds |-> Pending]
  /\ ncyc = 0
  /\ nsend = 0
  /\ call = [c \in Callers |-> IdleCall]
  /\ ret = IdleCall
  /\ signEnv = NoSigning
  /\ request = NoRequest
  /\ signResult = "none"
  /\ builder \in {NewBuilder(cls) : cls \in BuilderClasses}
  /\ built = NotBuilt

NextBuilder ==
  \/ \E domainHost \in DomainHosts : withDomainHost(domainHost)
  \/ \E subjectToken \in SubjectTokens : withSubjectToken(subjectToken)
  \/ \E clientCred \in ClientCreds : withClientCredentials(clientCred)
  \/ build

SpecBuilder == InitBuilder /\ [][NextBuilder]_vars

\* the three fields build() requires
Required(b) == {b.domainHost, b.subjectToken, b.clientCred}

\* what a build() call that constructed nothing leaves
NothingConstructed == ~built.supplier /\ built.client = NoClient

\* and one that built a client for the endpoint of its domain host
ClientBuilt ==
  /\ built.threw = "none"
  /\ built.supplier
  /\ built.client.cls = ClientClass(built.of.cls)
  /\ built.client.tokenExchangeEndpoint
       = "https://" \o built.of.domainHost \o "/oauth2/v1/token"

\* C30 as stated: build() throws, constructing neither a federation client
\* nor a session key supplier, whenever domainHost, subjectToken or
\* clientCred has not been set; when all three are set it builds a client
\* whose endpoint is https://<domainHost>/oauth2/v1/token.
C30_BuildRequiresFieldsSet ==
  built.called =>
    /\ UNDEFINED \in Required(built.of)
         => (built.threw # "none" /\ NothingConstructed)
    /\ UNDEFINED \notin Required(built.of) => ClientBuilt

\* C30, amended: build() throws, constructing neither a federation client
\* nor a session key supplier, whenever domainHost, subjectToken or
\* clientCred is unset or the empty string; when all three are non-empty it
\* builds a client whose endpoint is https://<domainHost>/oauth2/v1/token.
C30_BuildRequiresNonEmptyFields ==
  built.called =>
    /\ (\E v \in Required(built.of) : Falsy(v))
         => (built.threw # "none" /\ NothingConstructed)
    /\ (\A v \in Required(built.of) : ~Falsy(v)) => ClientBuilt

C30_Witness ==
  /\ built.called /\ built.threw = "none"
  /\ built.of.cls = "wif" /\ built.of.subjectToken = FUNCTION
  /\ built.client.tokenExchangeEndpoint
       = "https://idcs-2.example.com/oauth2/v1/token"
  /\ builder.clientCred = ""

\* the outcomes of an attempt that are terminal: a 4xx status, a 200 whose
\* body has no non-empty string token, a 200 with a token
TerminalOutcome(r) ==
  /\ ~r.threw
  /\ \/ r.status >= 400 /\ r.status < 500
     \/ r.status = 200 /\ r.body \in TokenLess \cup {"tok"}

\* C31: in the two loop-based token-exchange clients one delay of 1000 ms
\* separates every two consecutive attempts of a cycle (a cycle that made n
\* attempts waited n - 1 times), and no delay is taken after the final
\* attempt or after a terminal outcome (a 4xx, a token-less 200, a success).
C31_OneDelayBetweenAttempts ==
  kind \in LoopKinds =>
    /\ delayMs = 1000
    /\ \A r \in Recs :
         /\ ((r.own /\ r.pc \in {"cb", "sent", "delay"}) \/ CycleOver(r))
              => r.delays = r.attempt - 1
         /\ r.pc = "delay"
              => /\ r.attempt < DEFAULT_AUTH_MAX_RETRY_COUNT
                 /\ ~TerminalOutcome(r.last)

\* C32: in the retrying clients the first 200 response with a non-empty
\* string token ends the refresh cycle successfully: whatever the earlier
\* attempts (all of which ended retriably), the step that receives it
\* returns exactly the token of that response, caches it, and sends nothing
\* more.
C32_FirstTokenEndsCycle ==
  [][\A c \in Callers :
       LET new == IF call'[c].pc = "idle" THEN ret' ELSE call'[c]
       IN (kind \in RetryingKinds
             /\ call[c].pc = "sent" /\ call'[c] # call[c]
             /\ new.last = Resp(200, "tok"))
            => /\ CycleOver(new)
               /\ new.res.state = "ok"
               /\ new.res.tok.raw = call[c].sid
               /\ new.res.tok.key = call[c].key
               /\ securityTokenAdapter' = new.res.tok
               /\ new.sends = call[c].sends
               /\ nsend' = nsend]_vars

C32_Witness ==
  /\ kind = "x509"
  /\ CycleOver(ret) /\ ret.sends = 3
  /\ ret.last = Resp(200, "tok")
  /\ ret.res.state = "ok"
  /\ securityTokenAdapter = ret.res.tok

\* the steps the claim lists for a cycle of the X509 client, in order
X509Steps ==
  <<"rotate">> \o (IF leafHasRefresh THEN <<"leaf">> ELSE <<>>)
               \o (IF purpose = "DEFAULT" THEN <<"tenancy">> ELSE <<>>)
               \o <<"intermediates">>

\* C33: in X509FederationClient a refresh cycle has, before its first send,
\* rotated the session key, refreshed the leaf certificate supplier (if it
\* is refreshable), checked the tenancy id (purpose DEFAULT) and refreshed
\* the intermediate suppliers, in this order; and a cycle in which a
\* supplier refresh or the tenancy check failed has sent nothing and left
\* the cached token as it was.
C33_StepsBeforeFirstSend ==
  /\ [](kind = "x509" =>
          \A r \in Recs :
            /\ (r.own /\ r.pc \in {"sent", "delay"}) => r.steps = X509Steps
            /\ (CycleOver(r) /\ r.sends >= 1) => r.steps = X509Steps
            /\ (CycleOver(r) /\ r.res.err \in {"leaf", "tenancy", "intermediate"})
                 => r.sends = 0)
  /\ [][\A c \in Callers :
          (kind = "x509" /\ call[c].pc \in {"leaf", "inter"}
             /\ call'[c].pc = "idle")
            => (securityTokenAdapter' = securityTokenAdapter /\ nsend' = nsend)]_vars

C35_OneRotationPerCycle ==
  [][\A c \in Callers :
       LET new == IF call'[c].pc = "idle" THEN ret' ELSE call'[c]
           starts == /\ \A d \in Callers : call[d].pc = "idle"
                     /\ \A d \in Callers \ {c} : call'[d] = call[d]
                     /\ (call'[c] # call[c] \/ ret' # ret)
       IN /\ (starts /\ new.own)
               => /\ new.rots = 1
                  /\ (new.res.err # "rotate" => keyVer' = keyVer + 1)
                  /\ (new.sends >= 1 => new.key = keyVer')
          /\ (starts /\ new.src = "cache")
               => (new.rots = 0 /\ new.sends = 0 /\ keyVer' = keyVer)
          /\ (call[c].pc # "idle" /\ call[c].own)
               => /\ keyVer' = keyVer
                  /\ new.rots = 1
                  /\ (new.sends >= 1 => new.key = keyVer)]_vars

C35_Witness ==
  /\ kind = "static"
  /\ CycleOver(ret) /\ ret.sends = 3 /\ ret.rots = 1
  /\ ret.key = keyVer /\ keyVer = 2

\* C36: in X509FederationClient the key identifier a request is signed with
\* is <tenancyId>/fed-x509/<SHA-1 fingerprint of the leaf certificate the
\* client holds when the request is signed>: a request sent after a leaf
\* refresh replaced the certificate is signed with the new certificate, and
\* the certificate the key identifier names is the one in the request body.
C36_KeyIdNamesCurrentLeaf ==
  kind = "x509" =>
    \A r \in Recs :
      /\ r.pc = "sent"
           => /\ apiKey(r) = <<"mine", "fed-x509", fingerprint(leafCert)>>
              /\ r.cert = leafCert
      /\ r.sends >= 1 => apiKey(r) = <<"mine", "fed-x509", fingerprint(r.cert)>>

C36_Witness ==
  /\ kind = "x509" /\ leafHasRefresh
  /\ call[1].pc = "sent" /\ leafCert = 2
  /\ apiKey(call[1]) = <<"mine", "fed-x509", fingerprint(2)>>
  /\ call[1].cert = 2

\* C37: in X509FederationClient a cycle returns a token only on the strength
\* of its last attempt's response.  The response variable kept across the
\* loop iterations is never a 200 response while the cycle goes on, and when
\* the cycle is over with a token, the last attempt did not throw, answered
\* 200, and its response is the one the variable holds; a cycle whose last
\* attempt threw or answered another status has failed.
C37_LastAttemptDecides ==
  kind = "x509" =>
    \A r \in Recs :
      /\ (r.own /\ r.pc \in {"delay", "sent"}) =>
           (r.response = NoResp \/ r.response.status # 200)
      /\ (CycleOver(r) /\ r.res.state = "ok") =>
           /\ ~r.last.threw
           /\ r.last.status = 200
           /\ r.response = r.last
      /\ (CycleOver(r) /\ r.sends >= 1 /\ (r.last.threw \/ r.last.status # 200)) =>
           r.res.state = "fail"

\* a cycle whose last attempt threw while the variable still held the 503
\* response of an earlier attempt, and that failed
C37_Witness ==
  /\ kind = "x509"
  /\ CycleOver(ret)
  /\ ret.sends = 3
  /\ ret.last.threw
  /\ ret.response # NoResp /\ ret.response.status = 503
  /\ ret.res.state = "fail"

====
